---- MODULE Spec2Model ----
(***************************************************************************)
(* Plants database: the data-access class PlantsDatabase (Plants_db.py)    *)
(* over three SQLite tables, and the HTTP views of Plants_api.py.          *)
(*                                                                         *)
(* State: the three tables (sets of rows), the connection's                *)
(* last_insert_rowid (what cursor.lastrowid reads after an INSERT), and    *)
(* the last call with what it returned or raised.                          *)
(***************************************************************************)
EXTENDS Integers, FiniteSets, Sequences, TLC

VARIABLES fertilizer, plots, plant, last_insert_rowid, call, ret

vars == <<fertilizer, plots, plant, last_insert_rowid, call, ret>>

(* ----------------------------- input sets ------------------------------ *)

\* cap on the number of rows in the database, all tables together (NULL
\* fertilizer types are never ignored as duplicates, so the fertilizer table
\* is otherwise unbounded)
MaxRows == 3

\* SQL NULL as a column value / Python None as an argument
NULL == "NULL"

FertilizerTypes == {"potassium", "nitrogen"}
Sunlights == {"full", "shade"}
Names == {"Roses", "Peony"}
PHs == {6, 7}
\* pH of a plant: stored, never read back by a query
PlantPHs == {7}

\* fertilizer_type is the optional field: it may be None
FertilizerArgs == FertilizerTypes \cup {NULL}

\* ids asked for by get/delete
Ids == 1 .. MaxRows

(* ------------------------------ helpers -------------------------------- *)

\* Python None as a returned value (row_to_dict_or_none)
None == [none |-> TRUE]

Max(S) == CHOOSE m \in S : \A x \in S : x <= m

\* rowid SQLite gives a new row of an INTEGER PRIMARY KEY table
\* (no AUTOINCREMENT): largest rowid in the table + 1
NextRowid(ids) == IF ids = {} THEN 1 ELSE Max(ids) + 1

\* the database as the methods see it: tables and connection state
Db == [fertilizer |-> fertilizer, plots |-> plots, plant |-> plant,
       rowid |-> last_insert_rowid]

\* number of rows in the database
Rows(db) ==
    Cardinality(db.fertilizer) + Cardinality(db.plots) + Cardinality(db.plant)

\* a method's outcome: the database after it, what it raised, what it returned
Return(db, v) == [db |-> db, raises |-> "none", value |-> v]
Raise(db, e) == [db |-> db, raises |-> e, value |-> None]

(* ------------------------------ queries -------------------------------- *)

\* row_to_dict_or_none over the rows a SELECT matched
row_to_dict_or_none(rows) ==
    IF rows = {} THEN None ELSE CHOOSE r \in rows : TRUE

\* SELECT fertilizer_id, fertilizer_type FROM fertilizer WHERE Fertilizer_id = ?
get_fertilizer_by_id(db, fertilizer_id) ==
    row_to_dict_or_none({r \in db.fertilizer : r.fertilizer_id = fertilizer_id})

\* get_plot_by_id with the WHERE clause dropped: SELECT plot_id FROM plots
get_plot_by_id_no_where(db, plot_id) ==
    row_to_dict_or_none({[plot_id |-> r.plot_id] : r \in db.plots})

\* SELECT plot_id FROM plots WHERE plot_id = ?
get_plot_by_id(db, plot_id) ==
    row_to_dict_or_none({[plot_id |-> r.plot_id] :
                            r \in {q \in db.plots : q.plot_id = plot_id}})

\* SELECT plot_id, sunlight FROM plots WHERE sunlight = ?
\* (sunlight = NULL matches no row)
get_plots_by_sunlight(db, sunlight) ==
    row_to_dict_or_none({[plot_id |-> r.plot_id, sunlight |-> r.sunlight] :
        r \in {q \in db.plots : sunlight # NULL /\ q.sunlight = sunlight}})

\* SELECT Plant_id FROM Plant WHERE Plant.Plant_id = ?
get_plant_by_id(db, Plant_id) ==
    row_to_dict_or_none({[Plant_id |-> r.Plant_id] :
                            r \in {q \in db.plant : q.Plant_id = Plant_id}})

(* ------------------------------ inserts -------------------------------- *)

\* UNIQUE column: a NULL never conflicts
Conflicts(keys, k) == k # NULL /\ k \in keys

\* ForeignKeyOk without PRAGMA foreign_keys = 1: SQLite checks no foreign key
ForeignKeyOk_pragma_off(parentKeys, k) == TRUE

\* FOREIGN KEY (PRAGMA foreign_keys = 1): a NULL child key is not checked
ForeignKeyOk(parentKeys, k) == k = NULL \/ k \in parentKeys

FertilizerKeys(db) == {r.fertilizer_type : r \in db.fertilizer}
SunlightKeys(db) == {r.sunlight : r \in db.plots}
NameKeys(db) == {r.name : r \in db.plant}

\* INSERT OR IGNORE INTO fertilizer(fertilizer_type) VALUES(?);
\* return get_fertilizer_by_id(cur.lastrowid)
insert_fertilizer(db, fertilizer_type) ==
    LET id == NextRowid({r.fertilizer_id : r \in db.fertilizer})
        db1 == IF Conflicts(FertilizerKeys(db), fertilizer_type)
               THEN db
               ELSE [db EXCEPT
                       !.fertilizer = @ \cup {[fertilizer_id |-> id,
                                               fertilizer_type |-> fertilizer_type]},
                       !.rowid = id]
    IN Return(db1, get_fertilizer_by_id(db1, db1.rowid))

\* insert_plot with INSERT OR REPLACE in place of INSERT OR IGNORE: the row
\* in conflict is deleted and the new one inserted
insert_plot_or_replace(db, sunlight, pH, fertilizer_type) ==
    LET db1 == insert_fertilizer(db, fertilizer_type).db
        kept == {r \in db1.plots : ~(sunlight # NULL /\ r.sunlight = sunlight)}
        id == NextRowid({r.plot_id : r \in db1.plots})
        db2 == [db1 EXCEPT
                  !.plots = kept \cup {[plot_id |-> id, sunlight |-> sunlight,
                                        pH |-> pH,
                                        fertilizer_type |-> fertilizer_type]},
                  !.rowid = id]
    IN Return(db2, get_plots_by_sunlight(db2, sunlight))

\* insert_plot looking for the plot first and returning it, the fertilizer
\* being inserted only on the way to a new plot
insert_plot_lookup_first(db, sunlight, pH, fertilizer_type) ==
    IF Conflicts(SunlightKeys(db), sunlight)
    THEN Return(db, get_plots_by_sunlight(db, sunlight))
    ELSE LET db1 == insert_fertilizer(db, fertilizer_type).db
             id == NextRowid({r.plot_id : r \in db1.plots})
             db2 == [db1 EXCEPT
                       !.plots = @ \cup {[plot_id |-> id, sunlight |-> sunlight,
                                          pH |-> pH,
                                          fertilizer_type |-> fertilizer_type]},
                       !.rowid = id]
         IN Return(db2, get_plots_by_sunlight(db2, sunlight))

\* insert_fertilizer(fertilizer_type); INSERT OR IGNORE INTO plots(...);
\* return get_plots_by_sunlight(sunlight)
insert_plot(db, sunlight, pH, fertilizer_type) ==
    LET db1 == insert_fertilizer(db, fertilizer_type).db
        id == NextRowid({r.plot_id : r \in db1.plots})
    IN IF Conflicts(SunlightKeys(db1), sunlight)
       THEN Return(db1, get_plots_by_sunlight(db1, sunlight))
       ELSE IF ~ForeignKeyOk(FertilizerKeys(db1), fertilizer_type)
       THEN Raise(db1, "IntegrityError")
       ELSE LET db2 == [db1 EXCEPT
                          !.plots = @ \cup {[plot_id |-> id, sunlight |-> sunlight,
                                             pH |-> pH,
                                             fertilizer_type |-> fertilizer_type]},
                          !.rowid = id]
            IN Return(db2, get_plots_by_sunlight(db2, sunlight))

\* INSERT OR IGNORE INTO plant(name, pH, fertilizer_type, sunlight);
\* return get_plant_by_id(cur.lastrowid)
insert_plant(db, name, pH, fertilizer_type, sunlight) ==
    LET id == NextRowid({r.Plant_id : r \in db.plant})
    IN IF Conflicts(NameKeys(db), name)
       THEN Return(db, get_plant_by_id(db, db.rowid))
       ELSE IF ~(ForeignKeyOk(FertilizerKeys(db), fertilizer_type)
                 /\ ForeignKeyOk(SunlightKeys(db), sunlight))
       THEN Raise(db, "IntegrityError")
       ELSE LET db1 == [db EXCEPT
                          !.plant = @ \cup {[Plant_id |-> id, name |-> name,
                                             pH |-> pH,
                                             fertilizer_type |-> fertilizer_type,
                                             sunlight |-> sunlight]},
                          !.rowid = id]
            IN Return(db1, get_plant_by_id(db1, db1.rowid))

(* ------------------------------ deletes -------------------------------- *)

\* 'DELETE FROM Plant WHERE Plant_id = ?,' : the text ends in a comma, the
\* statement does not compile and execute raises before touching a row
delete_plant(db, Plant_id) == Raise(db, "OperationalError")

\* 'DELETE FROM plots WHERE plot_id = ?,'
delete_plot(db, plot_id) == Raise(db, "OperationalError")

\* 'DELETE FROM fertilizer WHERE fertilizer_id = ?,'
delete_fertilizer(db, fertilizer_id) == Raise(db, "OperationalError")

(* ------------------------------ HTTP layer ------------------------------ *)

\* get_db(): g holds no PlantsDatabase at the start of a request, so one is
\* constructed on the existing file: a new connection, no INSERT done on it
get_db(db) == [db EXCEPT !.rowid = 0]

\* str(status_code) in RequestError.__init__
Str(status_code) ==
    CASE status_code = 404 -> "404"
      [] status_code = 422 -> "422"

\* jsonify(value): a response with status 200
Jsonify(db, value) == [db |-> db, status |-> "200", body |-> value]

\* raise RequestError(status_code, error_message), answered by
\* handle_invalid_usage with to_response()
RequestError(db, status_code, error_message) ==
    [db |-> db, status |-> Str(status_code), body |-> [error |-> error_message]]

\* an exception no error handler is registered for leaves the view
Unhandled(db, exception) ==
    [db |-> db, status |-> "500", body |-> [exception |-> exception]]

\* number of parameters (after self) of insert_plot and insert_plant
insert_plot_params == 3
insert_plant_params == 4

\* FirstAbsent with the raise moved after the loop: the last absent parameter
RECURSIVE LastAbsent(_, _)
LastAbsent(parameters, form) ==
    IF parameters = <<>> THEN NULL
    ELSE LET rest == LastAbsent(Tail(parameters), form)
         IN IF rest # NULL THEN rest
            ELSE IF Head(parameters) \notin DOMAIN form THEN Head(parameters)
            ELSE NULL

\* the first parameter of the sequence that is not in the form, or NULL
RECURSIVE FirstAbsent(_, _)
FirstAbsent(parameters, form) ==
    IF parameters = <<>> THEN NULL
    ELSE IF Head(parameters) \notin DOMAIN form THEN Head(parameters)
    ELSE FirstAbsent(Tail(parameters), form)

PlotsView_get(db, plot_id) ==
    LET d == get_db(db)
        plot == get_plot_by_id(d, plot_id)
    IN IF plot # None THEN Jsonify(d, plot)
       ELSE RequestError(d, 404, "plot not found")

\* PlotsView_post creating the fertilizer of the form before the validation
\* loop runs
PlotsView_post_insert_first(db, form) ==
    LET d == IF "fertilizer_type" \in DOMAIN form
             THEN insert_fertilizer(get_db(db), form["fertilizer_type"]).db
             ELSE db
        parameter == FirstAbsent(<<"sunlight", "pH">>, form)
    IN IF parameter # NULL
       THEN RequestError(d, 422, "parameter " \o parameter \o " required")
       ELSE Unhandled(get_db(d), "TypeError")

PlotsView_post(db, form) ==
    LET parameter == FirstAbsent(<<"sunlight", "pH">>, form)
    IN IF parameter # NULL
       THEN RequestError(db, 422, "parameter " \o parameter \o " required")
       ELSE LET d == get_db(db)
                argv == <<form["sunlight"], form["pH"]>>
            IN IF Len(argv) # insert_plot_params
               THEN Unhandled(d, "TypeError")
               ELSE LET r == insert_plot(d, argv[1], argv[2], argv[3])
                    IN IF r.raises # "none" THEN Unhandled(r.db, r.raises)
                       ELSE Jsonify(r.db, r.value)

PlotsView_delete(db, plot_id) ==
    LET d == get_db(db)
    IN IF get_plot_by_id(d, plot_id) = None
       THEN RequestError(d, 404, "plot not found")
       ELSE LET r == delete_plot(d, plot_id)
            IN IF r.raises # "none" THEN Unhandled(r.db, r.raises)
               ELSE Jsonify(r.db, [message |-> "plot deleted successfully"])

PlantsView_get(db, plant_id) ==
    LET d == get_db(db)
        p == get_plant_by_id(d, plant_id)
    IN IF p # None THEN Jsonify(d, p)
       ELSE RequestError(d, 404, "plant not found")

PlantsView_post(db, form) ==
    LET parameter == FirstAbsent(<<"plant", "pH", "sunlight">>, form)
    IN IF parameter # NULL
       THEN RequestError(db, 422, "parameter " \o parameter \o " required")
       ELSE LET d == get_db(db)
                argv == <<form["plant"], form["pH"], form["sunlight"]>>
            IN IF Len(argv) # insert_plant_params
               THEN Unhandled(d, "TypeError")
               ELSE LET r == insert_plant(d, argv[1], argv[2], argv[3], argv[4])
                    IN IF r.raises # "none" THEN Unhandled(r.db, r.raises)
                       ELSE Jsonify(r.db, r.value)

PlantsView_delete(db, plant_id) ==
    LET d == get_db(db)
    IN IF get_plant_by_id(d, plant_id) = None
       THEN RequestError(d, 404, "plant not found")
       ELSE LET r == delete_plant(d, plant_id)
            IN IF r.raises # "none" THEN Unhandled(r.db, r.raises)
               ELSE Jsonify(r.db, [message |-> "plant deleted successfully"])

(* --------------------------- state machine ----------------------------- *)

Init ==
    /\ fertilizer = {}
    /\ plots = {}
    /\ plant = {}
    /\ last_insert_rowid = 0
    /\ call = [op |-> "init", args |-> <<>>]
    /\ ret = [raises |-> "none", value |-> None]

\* the state after a data-access method returned or raised r
Commit(r) ==
    /\ fertilizer' = r.db.fertilizer
    /\ plots' = r.db.plots
    /\ plant' = r.db.plant
    /\ last_insert_rowid' = r.db.rowid
    /\ ret' = [raises |-> r.raises, value |-> r.value]

\* PlantsDatabase(filename) on the existing file: a new connection
Connect ==
    /\ last_insert_rowid' = 0
    /\ call' = [op |-> "connect", args |-> <<>>]
    /\ ret' = [raises |-> "none", value |-> None]
    /\ UNCHANGED <<fertilizer, plots, plant>>

InsertFertilizer ==
    \E t \in FertilizerArgs :
        LET r == insert_fertilizer(Db, t)
        IN /\ Rows(r.db) <= MaxRows
           /\ call' = [op |-> "insert_fertilizer", args |-> <<t>>]
           /\ Commit(r)

InsertPlot ==
    \E s \in Sunlights, p \in PHs, t \in FertilizerArgs :
        LET r == insert_plot(Db, s, p, t)
        IN /\ Rows(r.db) <= MaxRows
           /\ call' = [op |-> "insert_plot", args |-> <<s, p, t>>]
           /\ Commit(r)

InsertPlant ==
    \E n \in Names, p \in PlantPHs, t \in FertilizerArgs, s \in Sunlights :
        LET r == insert_plant(Db, n, p, t, s)
        IN /\ Rows(r.db) <= MaxRows
           /\ call' = [op |-> "insert_plant", args |-> <<n, p, t, s>>]
           /\ Commit(r)

DeletePlant ==
    \E i \in Ids :
        /\ call' = [op |-> "delete_plant", args |-> <<i>>]
        /\ Commit(delete_plant(Db, i))

DeletePlot ==
    \E i \in Ids :
        /\ call' = [op |-> "delete_plot", args |-> <<i>>]
        /\ Commit(delete_plot(Db, i))

DeleteFertilizer ==
    \E i \in Ids :
        /\ call' = [op |-> "delete_fertilizer", args |-> <<i>>]
        /\ Commit(delete_fertilizer(Db, i))

\* values a form field can carry (request.form values are strings); the
\* views test the presence of a field and pass its value on unread
FormValues(field) ==
    CASE field = "sunlight" -> {"full"}
      [] field = "pH" -> {"7"}
      [] field = "fertilizer_type" -> {"potassium"}
      [] field = "plant" -> {"Roses"}

\* the forms over a set of field names: any subset of the fields present
Forms(fields) ==
    UNION {{f \in [D -> {"full", "Roses", "7", "potassium"}] :
              \A k \in D : f[k] \in FormValues(k)} : D \in SUBSET fields}

\* the state after a view answered r
Respond(r) ==
    /\ fertilizer' = r.db.fertilizer
    /\ plots' = r.db.plots
    /\ plant' = r.db.plant
    /\ last_insert_rowid' = r.db.rowid
    /\ ret' = [status |-> r.status, body |-> r.body]

GetPlot ==
    \E i \in Ids :
        /\ call' = [op |-> "GET /plots/<id>", args |-> <<i>>]
        /\ Respond(PlotsView_get(Db, i))

PostPlot ==
    \E form \in Forms({"sunlight", "pH", "fertilizer_type"}) :
        /\ call' = [op |-> "POST /plots", args |-> form]
        /\ Respond(PlotsView_post(Db, form))

DeletePlotRequest ==
    \E i \in Ids :
        /\ call' = [op |-> "DELETE /plots/<id>", args |-> <<i>>]
        /\ Respond(PlotsView_delete(Db, i))

GetPlant ==
    \E i \in Ids :
        /\ call' = [op |-> "GET /plants/<id>", args |-> <<i>>]
        /\ Respond(PlantsView_get(Db, i))

PostPlant ==
    \E form \in Forms({"plant", "pH", "sunlight", "fertilizer_type"}) :
        /\ call' = [op |-> "POST /plants", args |-> form]
        /\ Respond(PlantsView_post(Db, form))

DeletePlantRequest ==
    \E i \in Ids :
        /\ call' = [op |-> "DELETE /plants/<id>", args |-> <<i>>]
        /\ Respond(PlantsView_delete(Db, i))

Next ==
    \/ GetPlot
    \/ PostPlot
    \/ DeletePlotRequest
    \/ GetPlant
    \/ PostPlant
    \/ DeletePlantRequest
    \/ Connect
    \/ InsertFertilizer
    \/ InsertPlot
    \/ InsertPlant
    \/ DeletePlant
    \/ DeletePlot
    \/ DeleteFertilizer

Spec == Init /\ [][Next]_vars


(* ------------------------------- claims -------------------------------- *)

DbOps == {"insert_fertilizer", "insert_plot", "insert_plant",
          "delete_plant", "delete_plot", "delete_fertilizer"}

Tables == <<fertilizer, plots, plant>>

\* C1: insert_fertilizer(type) with a fertilizer row of that type present,
\* and insert_plant(name, ...) with a plant row of that name present, raise
\* nothing, add no row and return the record of the existing row.
C1_DuplicateInsertReturnsExisting ==
    [][ /\ (/\ call'.op = "insert_fertilizer"
            /\ call'.args[1] # NULL
            /\ \E r \in fertilizer : r.fertilizer_type = call'.args[1])
           => /\ ret'.raises = "none"
              /\ ret'.value \in {r \in fertilizer :
                                    r.fertilizer_type = call'.args[1]}
              /\ Tables' = Tables
        /\ (/\ call'.op = "insert_plant"
            /\ \E r \in plant : r.name = call'.args[1])
           => /\ ret'.raises = "none"
              /\ ret'.value \in {[Plant_id |-> r.Plant_id] :
                                    r \in {q \in plant : q.name = call'.args[1]}}
              /\ Tables' = Tables
      ]_vars

\* C2: creating a plot is idempotent on sunlight: no step removes or changes
\* a plots row, and insert_plot(s, pH, f) with a plot of sunlight s present
\* returns that plot (its plot_id), whatever pH and f are, and leaves plots
\* with that one row of sunlight s, its pH and fertilizer_type as they were.
C2_PlotCreationIdempotent ==
    [][ /\ plots \subseteq plots'
        /\ (/\ call'.op = "insert_plot"
            /\ \E r \in plots : r.sunlight = call'.args[1])
           => /\ ret'.raises = "none"
              /\ ret'.value \in {[plot_id |-> r.plot_id, sunlight |-> r.sunlight] :
                                    r \in {q \in plots : q.sunlight = call'.args[1]}}
              /\ plots' = plots
              /\ Cardinality({q \in plots' : q.sunlight = call'.args[1]}) = 1
      ]_vars

\* a second insert_plot of the same sunlight with another pH and another
\* fertilizer_type returned the first plot
C2_Witness ==
    /\ call.op = "insert_plot"
    /\ ret.raises = "none"
    /\ \E r \in plots :
          /\ r.sunlight = call.args[1]
          /\ r.pH # call.args[2]
          /\ r.fertilizer_type # call.args[3]
          /\ ret.value = [plot_id |-> r.plot_id, sunlight |-> r.sunlight]

\* C3: a POST to /plots with sunlight and pH, and a POST to /plants with
\* plant, pH and sunlight, answers 200 with the record, and the record is in
\* storage afterwards.
C3_PostWithRequiredFieldsCreates ==
    /\ (/\ call.op = "POST /plots"
        /\ {"sunlight", "pH"} \subseteq DOMAIN call.args)
       => /\ ret.status = "200"
          /\ \E r \in plots : r.sunlight = call.args["sunlight"]
    /\ (/\ call.op = "POST /plants"
        /\ {"plant", "pH", "sunlight"} \subseteq DOMAIN call.args)
       => /\ ret.status = "200"
          /\ \E r \in plant : r.name = call.args["plant"]

\* C4: a DELETE on the id of an existing plot or plant answers with the
\* success message and the row is gone, so that a later GET on it is a 404.
C4_DeleteExistingRemoves ==
    [][ /\ (/\ call'.op = "DELETE /plots/<id>"
            /\ \E r \in plots : r.plot_id = call'.args[1])
           => /\ ret'.status = "200"
              /\ ret'.body = [message |-> "plot deleted successfully"]
              /\ PlotsView_get(Db', call'.args[1]).status = "404"
        /\ (/\ call'.op = "DELETE /plants/<id>"
            /\ \E r \in plant : r.Plant_id = call'.args[1])
           => /\ ret'.status = "200"
              /\ ret'.body = [message |-> "plant deleted successfully"]
              /\ PlantsView_get(Db', call'.args[1]).status = "404"
      ]_vars

PlotsRequired == <<"sunlight", "pH">>
PlantsRequired == <<"plant", "pH", "sunlight">>

\* the answer is a 422 naming the first field of required absent from form
Is422Naming(required, form, response) ==
    /\ response.status = "422"
    /\ \E i \in 1 .. Len(required) :
          /\ required[i] \notin DOMAIN form
          /\ \A j \in 1 .. (i - 1) : required[j] \in DOMAIN form
          /\ response.body = [error |-> "parameter " \o required[i] \o " required"]

\* C5: a POST to /plots or /plants whose form lacks a required field is
\* answered 422 with 'parameter <f> required', f the first required field
\* absent from the form; it never returns a record.
C5_MissingFieldIs422 ==
    /\ (/\ call.op = "POST /plots"
        /\ \E i \in 1 .. Len(PlotsRequired) : PlotsRequired[i] \notin DOMAIN call.args)
       => Is422Naming(PlotsRequired, call.args, ret)
    /\ (/\ call.op = "POST /plants"
        /\ \E i \in 1 .. Len(PlantsRequired) : PlantsRequired[i] \notin DOMAIN call.args)
       => Is422Naming(PlantsRequired, call.args, ret)

\* a POST /plants with plant present and both pH and sunlight absent was
\* answered 422 naming pH
C5_Witness ==
    /\ call.op = "POST /plants"
    /\ "plant" \in DOMAIN call.args
    /\ "pH" \notin DOMAIN call.args
    /\ "sunlight" \notin DOMAIN call.args
    /\ ret = [status |-> "422", body |-> [error |-> "parameter pH required"]]


\* C6: for plots and plants, a GET or a DELETE by an id that has no row in
\* the table is answered 404 with an {'error': message} body, and a GET by
\* an id that has a row is never answered 404.
C6_NotFoundIffAbsent ==
    [][ /\ (/\ call'.op \in {"GET /plots/<id>", "DELETE /plots/<id>"}
            /\ ~\E r \in plots : r.plot_id = call'.args[1])
           => ret' = [status |-> "404", body |-> [error |-> "plot not found"]]
        /\ (/\ call'.op \in {"GET /plants/<id>", "DELETE /plants/<id>"}
            /\ ~\E r \in plant : r.Plant_id = call'.args[1])
           => ret' = [status |-> "404", body |-> [error |-> "plant not found"]]
        /\ (/\ call'.op = "GET /plots/<id>"
            /\ \E r \in plots : r.plot_id = call'.args[1])
           => ret'.status # "404"
        /\ (/\ call'.op = "GET /plants/<id>"
            /\ \E r \in plant : r.Plant_id = call'.args[1])
           => ret'.status # "404"
      ]_vars

\* a DELETE by an id without a row was answered 404 while the plots table
\* holds another row
C6_Witness ==
    /\ call.op = "DELETE /plots/<id>"
    /\ plots # {}
    /\ ~\E r \in plots : r.plot_id = call.args[1]
    /\ ret = [status |-> "404", body |-> [error |-> "plot not found"]]

\* C7: no two fertilizer rows have the same fertilizer_type, no two plots
\* rows the same sunlight, no two plant rows the same name.
C7_UniqueKeys ==
    /\ \A r1, r2 \in fertilizer :
          r1.fertilizer_type = r2.fertilizer_type => r1 = r2
    /\ \A r1, r2 \in plots : r1.sunlight = r2.sunlight => r1 = r2
    /\ \A r1, r2 \in plant : r1.name = r2.name => r1 = r2

\* every non-null fertilizer_type of a plots or plant row is the type of a
\* fertilizer row, every non-null sunlight of a plant row that of a plots row
ReferentialIntegrity(db) ==
    /\ \A r \in db.plots \cup db.plant :
          r.fertilizer_type # NULL =>
              \E f \in db.fertilizer : f.fertilizer_type = r.fertilizer_type
    /\ \A r \in db.plant :
          r.sunlight # NULL => \E p \in db.plots : p.sunlight = r.sunlight

\* fertilizer row fertilizer_id, plots row plot_id is referenced by a row
FertilizerReferenced(db, fertilizer_id) ==
    \E f \in db.fertilizer :
        /\ f.fertilizer_id = fertilizer_id
        /\ f.fertilizer_type # NULL
        /\ \E r \in db.plots \cup db.plant : r.fertilizer_type = f.fertilizer_type

PlotReferenced(db, plot_id) ==
    \E p \in db.plots :
        /\ p.plot_id = plot_id
        /\ \E r \in db.plant : r.sunlight = p.sunlight

\* C8: referential integrity holds after every step; an insert_plant of a
\* new name whose fertilizer_type or sunlight has no parent row, and a
\* delete_fertilizer or delete_plot of a referenced row, raise; and a
\* data-access call that raises leaves the three tables as they were.
C8_ReferentialIntegrity ==
    [][ /\ ReferentialIntegrity(Db')
        /\ (/\ call'.op = "insert_plant"
            /\ ~\E r \in plant : r.name = call'.args[1]
            /\ ~ReferentialIntegrity(
                   [Db EXCEPT !.plant = @ \cup {[Plant_id |-> 0,
                        name |-> call'.args[1], pH |-> call'.args[2],
                        fertilizer_type |-> call'.args[3],
                        sunlight |-> call'.args[4]]}]))
           => ret'.raises # "none"
        /\ (/\ call'.op = "delete_fertilizer"
            /\ FertilizerReferenced(Db, call'.args[1]))
           => ret'.raises # "none"
        /\ (/\ call'.op = "delete_plot"
            /\ PlotReferenced(Db, call'.args[1]))
           => ret'.raises # "none"
        /\ (call'.op \in DbOps /\ ret'.raises # "none") => Tables' = Tables
      ]_vars

\* an insert_plant of a fertilizer_type without a fertilizer row, its
\* sunlight being that of a plot, raised IntegrityError
C8_Witness ==
    /\ call.op = "insert_plant"
    /\ ret.raises = "IntegrityError"
    /\ call.args[3] # NULL
    /\ call.args[3] \notin FertilizerKeys(Db)
    /\ call.args[4] \in SunlightKeys(Db)
    /\ plant = {}

\* C9: delete_plant, delete_plot and delete_fertilizer with an id that has
\* no row raise nothing and leave the tables unchanged.
C9_DeleteAbsentIsNoop ==
    [][ /\ (/\ call'.op = "delete_plant"
            /\ ~\E r \in plant : r.Plant_id = call'.args[1])
           => ret'.raises = "none" /\ Tables' = Tables
        /\ (/\ call'.op = "delete_plot"
            /\ ~\E r \in plots : r.plot_id = call'.args[1])
           => ret'.raises = "none" /\ Tables' = Tables
        /\ (/\ call'.op = "delete_fertilizer"
            /\ ~\E r \in fertilizer : r.fertilizer_id = call'.args[1])
           => ret'.raises = "none" /\ Tables' = Tables
      ]_vars

\* C10: insert_plot and insert_plant called with a fertilizer_type that has
\* no fertilizer row (for insert_plant: the sunlight being that of a plot)
\* raise nothing and leave a fertilizer row of that type.
C10_FertilizerCreatedOnReference ==
    [][ /\ (/\ call'.op = "insert_plot"
            /\ call'.args[3] # NULL
            /\ call'.args[3] \notin FertilizerKeys(Db))
           => /\ ret'.raises = "none"
              /\ call'.args[3] \in FertilizerKeys(Db')
        /\ (/\ call'.op = "insert_plant"
            /\ call'.args[3] # NULL
            /\ call'.args[3] \notin FertilizerKeys(Db)
            /\ call'.args[4] \in SunlightKeys(Db))
           => /\ ret'.raises = "none"
              /\ call'.args[3] \in FertilizerKeys(Db')
      ]_vars


HttpOps == {"GET /plots/<id>", "POST /plots", "DELETE /plots/<id>",
            "GET /plants/<id>", "POST /plants", "DELETE /plants/<id>"}

\* C11: a request answered 404 or 422 leaves the fertilizer, plots and plant
\* tables as they were; a POST answered 422 made no data-access call at all
\* (no connection was opened: last_insert_rowid is as it was).
C11_ErrorRequestsChangeNothing ==
    [][ (call'.op \in HttpOps /\ ret'.status \in {"404", "422"})
           => /\ Tables' = Tables
              /\ ret'.status = "422" => last_insert_rowid' = last_insert_rowid
      ]_vars

\* a POST /plots carrying a fertilizer_type but no pH was answered 422 on a
\* database with rows; the connection's last insert is still recorded
C11_Witness ==
    /\ call.op = "POST /plots"
    /\ "fertilizer_type" \in DOMAIN call.args
    /\ "pH" \notin DOMAIN call.args
    /\ ret.status = "422"
    /\ fertilizer # {}
    /\ call.args["fertilizer_type"] \notin FertilizerKeys(Db)
    /\ last_insert_rowid # 0


\* C12: insert_plot(s, pH, f) with a plot of sunlight s present leaves the
\* plots and plant tables unchanged; if no fertilizer row has type f it adds
\* exactly one fertilizer row, of type f, and if one has it leaves the
\* fertilizer table unchanged too.
C12_IgnoredPlotStillAddsFertilizer ==
    [][ (/\ call'.op = "insert_plot"
         /\ \E r \in plots : r.sunlight = call'.args[1])
           => /\ plots' = plots
              /\ plant' = plant
              /\ (~\E r \in fertilizer : r.fertilizer_type = call'.args[3])
                    => /\ fertilizer \subseteq fertilizer'
                       /\ Cardinality(fertilizer') = Cardinality(fertilizer) + 1
                       /\ \A r \in fertilizer' \ fertilizer :
                             r.fertilizer_type = call'.args[3]
              /\ (/\ call'.args[3] # NULL
                  /\ \E r \in fertilizer : r.fertilizer_type = call'.args[3])
                    => fertilizer' = fertilizer
      ]_vars

\* an insert_plot of the sunlight of the only plot, with another pH and
\* another fertilizer_type, returned that plot; the fertilizer row of the
\* type it carried is the newest row and the connection's last insert
C12_Witness ==
    /\ call.op = "insert_plot"
    /\ call.args[3] # NULL
    /\ ret.raises = "none"
    /\ plant = {}
    /\ Cardinality(plots) = 1
    /\ Cardinality(fertilizer) = 2
    /\ \E r \in plots :
          /\ r.sunlight = call.args[1]
          /\ r.pH # call.args[2]
          /\ r.fertilizer_type \notin {NULL, call.args[3]}
          /\ ret.value = [plot_id |-> r.plot_id, sunlight |-> r.sunlight]
    /\ [fertilizer_id |-> 2, fertilizer_type |-> call.args[3]] \in fertilizer
    /\ last_insert_rowid = 2

====
